---- MODULE Spec2Model ----
(***************************************************************************)
(* Model of mpltools/color.py: color_mapper (and the closure map_color it  *)
(* returns), colors_from_cmap and cycle_cmap, together with the state they *)
(* read and write: the default range table CMAP_RANGE, matplotlib's        *)
(* process-wide default colour cycle and the colour cycle of each axes.    *)
(*                                                                         *)
(* Real numbers are exact rationals <<n, d>> in lowest terms with d > 0.   *)
(* A colour is opaque to the module: cmap(x) is modelled as the pair       *)
(* <<name of the colormap, index x it was queried at>>.                    *)
(***************************************************************************)
EXTENDS Integers, Sequences, FiniteSets, TLC

VARIABLES CMAP_RANGE, rc_color_cycle, ax_color_cycle, closure, queried, last

vars == <<CMAP_RANGE, rc_color_cycle, ax_color_cycle, closure, queried, last>>

(* ------------------------------ bounds --------------------------------- *)
MaxLength == 5
MaxParam == 3

(* --------------------------- exact rationals --------------------------- *)
Abs(n) == IF n < 0 THEN -n ELSE n

RECURSIVE Gcd(_, _)
Gcd(a, b) == IF b = 0 THEN a ELSE Gcd(b, a % b)

Rat(n, d) ==
    LET g == Gcd(Abs(n), Abs(d))
        s == IF d < 0 THEN -1 ELSE 1
    IN  <<(s * n) \div g, (s * d) \div g>>

RAdd(a, b) == Rat(a[1] * b[2] + b[1] * a[2], a[2] * b[2])
RSub(a, b) == Rat(a[1] * b[2] - b[1] * a[2], a[2] * b[2])
RMul(a, b) == Rat(a[1] * b[1], a[2] * b[2])
RDiv(a, b) == Rat(a[1] * b[2], a[2] * b[1])
RLt(a, b)  == a[1] * b[2] < b[1] * a[2]
RLe(a, b)  == a[1] * b[2] <= b[1] * a[2]
RInt(n)    == <<n, 1>>
Zero == <<0, 1>>
One  == <<1, 1>>

(* Python's None, kept apart from every rational (denominator 0). *)
None == <<0, 0>>

(* ------------------------ external collaborators ----------------------- *)
(* cmap(idx): the colour a matplotlib colormap gives for an index. *)
Color(cmap, x) == <<cmap, x>>

(* The colour cycle matplotlib starts with, before any call. *)
InitialCycle == << <<"rcdefault", Zero>> >>

Axes == {"ax1", "ax2"}
NoAx == "None"

(* np.linspace(start, stop, num): arange(num) * step + start with         *)
(* step = (stop - start) / (num - 1), the last element then set to stop;   *)
(* num = 1 gives [start].                                                  *)
linspace_noendpoint(start, stop, num) ==
    LET step == RDiv(RSub(stop, start), RInt(num))
    IN  [i \in 1..num |-> RAdd(RMul(RInt(i - 1), step), start)]

linspace(start, stop, num) ==
    IF num = 1 THEN <<start>>
    ELSE LET step == RDiv(RSub(stop, start), RInt(num - 1))
         IN  [i \in 1..num |->
                 IF i = num THEN stop
                 ELSE RAdd(RMul(RInt(i - 1), step), start)]

(* ---------------------- the default range table ------------------------ *)
(* config['color']['cmap_range']: colormap name -> [start, stop], a list.  *)
CmapRangeConfig ==
    [c \in {"YlOrBr", "Blues"} |->
        IF c = "YlOrBr" THEN <<Rat(1, 5), One>> ELSE <<Rat(3, 10), One>>]

(* The record describing the call a step made. *)
NoCall ==
    [op |-> "none", outcome |-> "none", length |-> 0, cmap |-> "None",
     start |-> None, stop |-> None, ax |-> NoAx,
     pmin |-> None, pmax |-> None, val |-> None,
     crange |-> <<None, None>>, idx |-> <<>>, result |-> <<>>]

NoClosure ==
    [built |-> FALSE, cmap |-> "None", pmin |-> None, pmax |-> None,
     start |-> None, stop |-> None]

Init ==
    /\ CMAP_RANGE = CmapRangeConfig
    /\ rc_color_cycle = InitialCycle
    /\ ax_color_cycle = [a \in Axes |-> InitialCycle]
    /\ closure = NoClosure
    /\ queried = {}
    /\ last = NoCall

(* ------------------------- colors_from_cmap ---------------------------- *)
(* Lines 82-92 as a function of the table: the table after the call, the   *)
(* window the call resolved, how the call ended and what it returned.      *)
InUnit(x) == RLe(Zero, x) /\ RLe(x, One)

SetBound(table, name, i, v) == [table EXCEPT ![name][i] = v]

Sampled(table, outcome, cmap, crange, idx) ==
    [table |-> table, outcome |-> outcome, crange |-> crange, idx |-> idx,
     result |-> [i \in 1..Len(idx) |-> Color(cmap, idx[i])]]

Validate(table, cmap, crange, length) ==
    IF ~ InUnit(crange[1]) \/ ~ InUnit(crange[2])
    THEN Sampled(table, "AssertionError", cmap, crange, <<>>)
    ELSE Sampled(table, "ok", cmap, crange,
                 linspace(crange[1], crange[2], length))

colors_from_cmap_run(table, length, cmap, start, stop) ==
    IF cmap \in DOMAIN table
    THEN (* crange is the list held by the table: item assignment writes   *)
         (* the table entry itself.                                        *)
         LET t1 == IF start # None THEN SetBound(table, cmap, 1, start) ELSE table
             t2 == IF stop # None THEN SetBound(t1, cmap, 2, stop) ELSE t1
         IN  Validate(t2, cmap, t2[cmap], length)
    ELSE (* crange is the tuple (0, 1): item assignment raises TypeError.  *)
         IF start # None \/ stop # None
         THEN Sampled(table, "TypeError", cmap, <<Zero, One>>, <<>>)
         ELSE Validate(table, cmap, <<Zero, One>>, length)

colors_from_cmap(length, cmap, start, stop) ==
    \E r \in {colors_from_cmap_run(CMAP_RANGE, length, cmap, start, stop)} :
        /\ CMAP_RANGE' = r.table
        /\ last' = [NoCall EXCEPT !.op = "colors_from_cmap",
                       !.outcome = r.outcome, !.length = length,
                       !.cmap = cmap, !.start = start, !.stop = stop,
                       !.crange = r.crange, !.idx = r.idx,
                       !.result = r.result]
        /\ UNCHANGED <<rc_color_cycle, ax_color_cycle, closure, queried>>

(* ----------------------------- cycle_cmap ------------------------------ *)
InstallRc_always(cycle, ax, colors) == colors
InstallRc(cycle, ax, colors) == IF ax = NoAx THEN colors ELSE cycle

cycle_cmap(length, cmap, start, stop, ax) ==
    \E r \in {colors_from_cmap_run(CMAP_RANGE, length, cmap, start, stop)} :
        /\ CMAP_RANGE' = r.table
        /\ IF r.outcome = "ok"
           THEN /\ rc_color_cycle' = InstallRc(rc_color_cycle, ax, r.result)
                /\ ax_color_cycle' =
                      IF ax = NoAx THEN ax_color_cycle
                      ELSE [ax_color_cycle EXCEPT ![ax] = r.result]
           ELSE UNCHANGED <<rc_color_cycle, ax_color_cycle>>
        /\ last' = [NoCall EXCEPT !.op = "cycle_cmap",
                       !.outcome = r.outcome, !.length = length,
                       !.cmap = cmap, !.start = start, !.stop = stop,
                       !.ax = ax, !.crange = r.crange, !.idx = r.idx,
                       !.result = r.result]
        /\ UNCHANGED <<closure, queried>>

(* ------------------------ color_mapper, map_color ---------------------- *)
WindowOk(start, stop) == RLt(start, stop) /\ InUnit(start) /\ InUnit(stop)

color_mapper(pmin, pmax, cmap, start, stop) ==
    /\ IF WindowOk(start, stop)
       THEN /\ closure' = [built |-> TRUE, cmap |-> cmap, pmin |-> pmin,
                           pmax |-> pmax, start |-> start, stop |-> stop]
            /\ queried' = {}
       ELSE UNCHANGED <<closure, queried>>
    /\ last' = [NoCall EXCEPT !.op = "color_mapper",
                   !.outcome = IF WindowOk(start, stop) THEN "ok"
                               ELSE "AssertionError",
                   !.cmap = cmap, !.pmin = pmin, !.pmax = pmax,
                   !.start = start, !.stop = stop]
    /\ UNCHANGED <<CMAP_RANGE, rc_color_cycle, ax_color_cycle>>

ValInRange_nomax(pmin, val, pmax) == RLe(pmin, val)
ValInRange(pmin, val, pmax) == RLe(pmin, val) /\ RLe(val, pmax)

MapIndex_nostart(val, pmin, pmax, start, stop) ==
    RDiv(RMul(RSub(val, pmin), RSub(stop, start)), RSub(pmax, pmin))
MapIndex_flipped(val, pmin, pmax, start, stop) ==
    RAdd(RDiv(RMul(RSub(pmax, val), RSub(stop, start)), RSub(pmax, pmin)),
         start)

(* idx of lines 44-45 (float arithmetic, read as exact). *)
MapIndex(val, pmin, pmax, start, stop) ==
    LET val_norm == RDiv(RMul(RSub(val, pmin), RSub(stop, start)),
                         RSub(pmax, pmin))
    IN  RAdd(val_norm, start)

map_color(val) ==
    /\ closure.built
    /\ LET c == closure
           outcome == IF ~ ValInRange(c.pmin, val, c.pmax) THEN "AssertionError"
                      ELSE IF c.pmax = c.pmin THEN "ZeroDivisionError"
                      ELSE "ok"
           idx == MapIndex(val, c.pmin, c.pmax, c.start, c.stop)
       IN  /\ queried' = IF outcome = "ok"
                         THEN queried \cup {[val |-> val, idx |-> idx]}
                         ELSE queried
           /\ last' = [NoCall EXCEPT !.op = "map_color", !.outcome = outcome,
                          !.cmap = c.cmap, !.pmin = c.pmin, !.pmax = c.pmax,
                          !.start = c.start, !.stop = c.stop, !.val = val,
                          !.idx = IF outcome = "ok" THEN <<idx>> ELSE <<>>,
                          !.result = IF outcome = "ok"
                                     THEN <<Color(c.cmap, idx)>> ELSE <<>>]
    /\ UNCHANGED <<CMAP_RANGE, rc_color_cycle, ax_color_cycle, closure>>

(* ------------------------------ inputs --------------------------------- *)
Cmaps == {"YlOrBr", "jet"}
Bounds == {None, Rat(-1, 5), Rat(1, 5), Rat(4, 5), Rat(6, 5)}
Lengths == 1..MaxLength


CycleStarts == {None, Rat(2, 5), Rat(6, 5)}
CycleStops == {None, Rat(4, 5), Rat(6, 5)}
CycleLengths == {2}

Params == {RInt(n) : n \in 0..MaxParam} \cup {Rat(1, 2)}
Ranges == {<<Zero, One>>, <<One, RInt(MaxParam)>>, <<One, One>>, <<One, Zero>>}
Windows == {Rat(-1, 5), Zero, Rat(1, 5), Rat(4, 5), One, Rat(6, 5)}

(* ---------------------------- specifications --------------------------- *)
(* colors_from_cmap and cycle_cmap acting on the table and the cycles. *)
Next ==
    \/ \E length \in CycleLengths, cmap \in Cmaps,
          start \in CycleStarts, stop \in CycleStops :
            colors_from_cmap(length, cmap, start, stop)
    \/ \E length \in CycleLengths, cmap \in Cmaps,
          start \in CycleStarts, stop \in CycleStops,
          ax \in Axes \cup {NoAx} :
            cycle_cmap(length, cmap, start, stop, ax)

Spec == Init /\ [][Next]_vars

(* colors_from_cmap alone, over a wider range of inputs. *)
SamplerNext ==
    \E length \in Lengths, cmap \in Cmaps, start \in Bounds, stop \in Bounds :
        colors_from_cmap(length, cmap, start, stop)

SamplerSpec == Init /\ [][SamplerNext]_vars

(* color_mapper and the closures it returns. *)
MapperNext ==
    \/ \E r \in Ranges, start \in Windows, stop \in Windows :
            color_mapper(r[1], r[2], "YlOrBr", start, stop)
    \/ \E val \in Params : map_color(val)

MapperSpec == Init /\ [][MapperNext]_vars

(* ============================== claims ================================= *)
Supplied(x) == x # None
SuppliedOrNoneInUnit(x) == x = None \/ InUnit(x)
SamplerCall == last.op \in {"colors_from_cmap", "cycle_cmap"}

(* The window a finished call sampled, read off the call's arguments and   *)
(* the table: a supplied bound, else the table's bound for the colormap,   *)
(* else 0 and 1.                                                           *)
WindowOf(call, table) ==
    LET dflt == IF call.cmap \in DOMAIN table THEN table[call.cmap]
                ELSE <<Zero, One>>
    IN  <<IF Supplied(call.start) THEN call.start ELSE dflt[1],
          IF Supplied(call.stop) THEN call.stop ELSE dflt[2]>>

(* start + i * (stop - start) / (n - 1) *)
EvenlySpaced(start, stop, n, i) ==
    RAdd(start, RDiv(RMul(RInt(i), RSub(stop, start)), RInt(n - 1)))

(* C1: the default range table is read-only after load: after any sequence *)
(* of colors_from_cmap and cycle_cmap calls every entry equals its initial *)
(* value.                                                                  *)
C1_TableReadOnly == CMAP_RANGE = CmapRangeConfig

(* C2: a colors_from_cmap call for a colormap with no table entry, with    *)
(* start and stop each omitted or supplied within [0,1], succeeds and      *)
(* samples over the window (0, 1) with each supplied bound replacing the   *)
(* corresponding default.                                                  *)
C2_UnknownCmapFallsBack ==
    (/\ last.op = "colors_from_cmap"
     /\ last.cmap \notin DOMAIN CmapRangeConfig
     /\ SuppliedOrNoneInUnit(last.start)
     /\ SuppliedOrNoneInUnit(last.stop))
    => /\ last.outcome = "ok"
       /\ Len(last.idx) = last.length
       /\ last.idx[1] = (IF Supplied(last.start) THEN last.start ELSE Zero)
       /\ last.length >= 2 =>
            last.idx[last.length] =
                (IF Supplied(last.stop) THEN last.stop ELSE One)

(* C3: a cycle_cmap call without axes sets the process-wide default colour *)
(* cycle to exactly the list colors_from_cmap returns for the same         *)
(* (length, cmap, start, stop) and touches no axes; with an axes it sets   *)
(* only that axes' cycle to that list and leaves the process-wide default  *)
(* cycle and every other axes unchanged.                                   *)
C3_CycleInstalledWhereAsked ==
    [][(last'.op = "cycle_cmap" /\ last'.outcome = "ok") =>
         LET colors == colors_from_cmap_run(CMAP_RANGE, last'.length,
                           last'.cmap, last'.start, last'.stop).result
         IN  IF last'.ax = NoAx
             THEN /\ rc_color_cycle' = colors
                  /\ ax_color_cycle' = ax_color_cycle
             ELSE /\ ax_color_cycle'[last'.ax] = colors
                  /\ rc_color_cycle' = rc_color_cycle
                  /\ \A a \in Axes \ {last'.ax} :
                        ax_color_cycle'[a] = ax_color_cycle[a]]_vars

C3_Witness ==
    /\ last.op = "cycle_cmap"
    /\ last.outcome = "ok"
    /\ last.ax = "ax1"
    /\ Supplied(last.start)
    /\ ax_color_cycle["ax1"] = last.result
    /\ rc_color_cycle # InitialCycle
    /\ rc_color_cycle # ax_color_cycle["ax1"]
    /\ ax_color_cycle["ax2"] = InitialCycle

(* C4: colors_from_cmap returns exactly `length` colours for every         *)
(* length >= 1, every colormap and every valid start/stop combination.     *)
C4_ReturnsLengthColors ==
    (/\ last.op = "colors_from_cmap"
     /\ last.length >= 1
     /\ SuppliedOrNoneInUnit(last.start)
     /\ SuppliedOrNoneInUnit(last.stop)
     /\ (Supplied(last.start) /\ Supplied(last.stop))
            => RLt(last.start, last.stop))
    => /\ last.outcome = "ok"
       /\ Len(last.result) = last.length

(* C5: a colors_from_cmap call that returns has sampled the colormap at    *)
(* `length` evenly spaced points of its window, both ends included: for    *)
(* N >= 2 the i-th sample is at start + i*(stop-start)/(N-1), the first at *)
(* start and the last at stop; for N = 1 the single sample is at start.    *)
C5_EvenlySpacedSamples ==
    (last.op = "colors_from_cmap" /\ last.outcome = "ok") =>
        LET w == WindowOf(last, CMAP_RANGE)
            n == last.length
        IN  /\ Len(last.idx) = n
            /\ Len(last.result) = n
            /\ last.idx[1] = w[1]
            /\ n >= 2 => /\ last.idx[n] = w[2]
                         /\ \A i \in 0..(n - 1) :
                               last.idx[i + 1] = EvenlySpaced(w[1], w[2], n, i)
            /\ \A i \in 1..n : last.result[i] = Color(last.cmap, last.idx[i])

C5_Witness ==
    /\ last.op = "colors_from_cmap"
    /\ last.outcome = "ok"
    /\ last.length = 5
    /\ last.start = Rat(1, 5)
    /\ last.stop = Rat(4, 5)
    /\ last.idx = <<Rat(1, 5), Rat(7, 20), Rat(1, 2), Rat(13, 20), Rat(4, 5)>>

(* C6: for pmin < pmax and a window 0 <= start < stop <= 1, the closure    *)
(* returned by color_mapper queries the colormap at                        *)
(* start + (v - pmin)/(pmax - pmin) * (stop - start) for every             *)
(* pmin <= v <= pmax: cmap(start) at v = pmin and cmap(stop) at v = pmax.  *)
C6_MapperIndex ==
    (/\ last.op = "map_color"
     /\ RLt(last.pmin, last.pmax)
     /\ RLe(last.pmin, last.val)
     /\ RLe(last.val, last.pmax))
    => LET norm == RDiv(RSub(last.val, last.pmin), RSub(last.pmax, last.pmin))
           at == RAdd(last.start, RMul(norm, RSub(last.stop, last.start)))
       IN  /\ last.outcome = "ok"
           /\ last.idx = <<at>>
           /\ last.result = <<Color(last.cmap, at)>>
           /\ last.val = last.pmin => last.result = <<Color(last.cmap, last.start)>>
           /\ last.val = last.pmax => last.result = <<Color(last.cmap, last.stop)>>

C6_Witness ==
    /\ last.op = "map_color"
    /\ last.outcome = "ok"
    /\ last.pmin = One /\ last.pmax = RInt(3) /\ last.val = RInt(2)
    /\ last.start = Rat(1, 5) /\ last.stop = Rat(4, 5)
    /\ last.result = <<Color(last.cmap, Rat(1, 2))>>

(* C7: the closure returned by color_mapper is monotonic: for v1 < v2 in   *)
(* [pmin, pmax] the index queried for v1 is strictly less than the index   *)
(* queried for v2, and every queried index lies within [start, stop].      *)
C7_MapperMonotonic ==
    (closure.built /\ RLt(closure.pmin, closure.pmax)) =>
        /\ \A q1 \in queried, q2 \in queried :
              RLt(q1.val, q2.val) => RLt(q1.idx, q2.idx)
        /\ \A q \in queried :
              RLe(closure.start, q.idx) /\ RLe(q.idx, closure.stop)

C7_Witness ==
    /\ closure.built
    /\ RLt(closure.pmin, closure.pmax)
    /\ RLt(Zero, closure.start)
    /\ Cardinality(queried) >= 3

(* C8: color_mapper fails, building no closure, if start or stop lies      *)
(* outside [0,1] or start is not strictly less than stop; the closure it   *)
(* returns fails for every v < pmin or v > pmax; in neither case is the    *)
(* colormap queried or a colour returned.                                  *)
C8_MapperRejects ==
    [][/\ (/\ last'.op = "color_mapper"
           /\ \/ ~ InUnit(last'.start)
              \/ ~ InUnit(last'.stop)
              \/ ~ RLt(last'.start, last'.stop))
          => /\ last'.outcome = "AssertionError"
             /\ last'.result = <<>>
             /\ closure' = closure
             /\ queried' = queried
       /\ (/\ last'.op = "map_color"
           /\ RLt(last'.val, last'.pmin) \/ RLt(last'.pmax, last'.val))
          => /\ last'.outcome = "AssertionError"
             /\ last'.result = <<>>
             /\ queried' = queried]_vars

C8_Witness ==
    /\ last.op = "map_color"
    /\ last.outcome = "AssertionError"
    /\ RLt(last.pmin, last.pmax)
    /\ RLt(last.pmax, last.val)
    /\ queried # {}

(* C9: colors_from_cmap (and cycle_cmap through it) raises, producing no   *)
(* colour, whenever its window is invalid: a bound outside [0,1], or       *)
(* start > stop.                                                           *)
C9_InvalidWindowRaises ==
    (/\ SamplerCall
     /\ LET w == WindowOf(last, CMAP_RANGE)
        IN  ~ InUnit(w[1]) \/ ~ InUnit(w[2]) \/ RLt(w[2], w[1]))
    => /\ last.outcome # "ok"
       /\ last.result = <<>>

(* C10: a colors_from_cmap or cycle_cmap call that fails its bound         *)
(* validation (a supplied start or stop outside [0,1]) leaves the default  *)
(* range table, the process-wide default colour cycle and every axes'      *)
(* colour cycle as they were before the call.                              *)
C10_FailedCallChangesNothing ==
    [][(/\ last'.op \in {"colors_from_cmap", "cycle_cmap"}
        /\ last'.outcome = "AssertionError"
        /\ \/ Supplied(last'.start) /\ ~ InUnit(last'.start)
           \/ Supplied(last'.stop) /\ ~ InUnit(last'.stop))
       => /\ CMAP_RANGE' = CMAP_RANGE
          /\ rc_color_cycle' = rc_color_cycle
          /\ ax_color_cycle' = ax_color_cycle]_vars

====
